---- MODULE Spec2Model ----
(***************************************************************************)
(* Retirement drawdown projection: a model of the two projection engines   *)
(* of the repository,                                                      *)
(*   - RetirementCalculator.runProjection        (src/script.js)           *)
(*   - RetirementCalculator.calculateProjection  (src/js/retirement-       *)
(*     calculator.js), with calculateAnnualProjection.                     *)
(* Both files declare a class of the same name, so a page loads one of     *)
(* them; `loaded` says which.                                              *)
(*                                                                         *)
(* JavaScript numbers are modelled as exact rationals <<n, d>> in lowest   *)
(* terms with d > 0, so that growth, inflation, taxes, percentages and the *)
(* division by 12 are computed, not assumed.  Rounding of IEEE doubles is  *)
(* not modelled.                                                           *)
(***************************************************************************)
EXTENDS Integers, Sequences, FiniteSets, TLC

(***************************************************************************)
(* Bounds of the model.                                                    *)
(***************************************************************************)
MaxYears == 3
MaxBalance == 2
MaxBlockedCalls == 1
MaxWait == 2
MaxCalls == 3
MaxTime == 5
MaxNavigations == 2

(***************************************************************************)
(* Number arithmetic.                                                      *)
(***************************************************************************)
Abs(n) == IF n < 0 THEN -n ELSE n

RECURSIVE GCD(_, _)
GCD(a, b) == IF b = 0 THEN a ELSE GCD(b, a % b)

LCM(a, b) == (a \div GCD(a, b)) * b

Norm(n, d) ==
    LET g == GCD(Abs(n), d)
    IN  <<n \div g, d \div g>>

Num(n) == <<n, 1>>
Frac(n, d) == Norm(n, d)
Zero == Num(0)
One == Num(1)

RAdd(a, b) ==
    LET l == LCM(a[2], b[2])
    IN  Norm(a[1] * (l \div a[2]) + b[1] * (l \div b[2]), l)

RNeg(a) == <<-a[1], a[2]>>

RSub(a, b) == RAdd(a, RNeg(b))

RMul(a, b) ==
    LET g1 == GCD(Abs(a[1]), b[2])
        g2 == GCD(Abs(b[1]), a[2])
    IN  Norm((a[1] \div g1) * (b[1] \div g2), (a[2] \div g2) * (b[2] \div g1))

\* a / b for b # 0
RDiv(a, b) ==
    IF b[1] > 0 THEN RMul(a, <<b[2], b[1]>>)
                ELSE RMul(a, <<-b[2], -b[1]>>)

RLe(a, b) ==
    LET l == LCM(a[2], b[2])
    IN  a[1] * (l \div a[2]) <= b[1] * (l \div b[2])

RLt(a, b) == ~RLe(b, a)

\* Math.min, Math.max
RMin(a, b) == IF RLe(a, b) THEN a ELSE b
RMax(a, b) == IF RLe(a, b) THEN b ELSE a

\* Math.pow(base, n) for an integer n >= 0
RECURSIVE RPow(_, _)
RPow(base, n) == IF n = 0 THEN One ELSE RMul(base, RPow(base, n - 1))

(***************************************************************************)
(* State.                                                                  *)
(***************************************************************************)
VARIABLES
    loaded,               \* which script the page loaded: "script" or "calculator"
    inputs,               \* the form's values, as getInputValues / calculateProjection read them
    pc,                   \* "idle", or "loop" while a projection is running
    year,                 \* loop counter of the running projection
    taxDeferredBalance,   \* runProjection locals
    rothBalance,
    taxableBalance,
    currentSpending,
    data,
    currentBalance,       \* calculateProjection local
    projectionData,       \* this.projectionData
    isCalculating,        \* this.isCalculating
    trace,                \* per emitted record: the balances and amounts at the points of the loop body
    result,               \* <<>>, or <<arguments, returned sequence>> of the last completed call
    ref,                  \* <<>>, or <<arguments, returned sequence>> of the first completed call
    intervening,          \* a call with other arguments than the first call's has completed
    handler,              \* position inside calculateAndUpdate, "none" outside it
    log,                  \* what the running (or last) calculateAndUpdate has done, in order
    before,               \* this.projectionData when the running (or last) calculateAndUpdate began
    summary,              \* the summary cards, <<>> before the first updateSummaryCards
    tableRows,            \* the classes of the rows of the projection table
    blocked,              \* number of calls that found isCalculating set and returned at once
    now,                  \* the time, in timer ticks
    wait,                 \* the wait of the debounced function, 0 before debounce(func, wait)
    timeout,              \* the pending timers set by the closure, each <<time due, arguments>>
    events,               \* the calls of the debounced function and the runs of func, in order
    elements,             \* AppController's page: the sections that have a content element
    initFunctions,        \* the sections that have an init function on window
    currentSection,       \* this.currentSection
    hash,                 \* the section in the URL hash
    displayed,            \* the content sections with display: block
    activeNav,            \* the nav items with class active
    navs                  \* the calls of navigateTo so far, each with its position

vars == <<loaded, inputs, pc, year, taxDeferredBalance, rothBalance, taxableBalance,
          currentSpending, data, currentBalance, projectionData, isCalculating, trace,
          result, ref, intervening, handler, log, before, summary, tableRows, blocked,
          now, wait, timeout, events,
          elements, initFunctions, currentSection, hash, displayed, activeNav, navs>>

pageVars == <<handler, log, before, summary, tableRows, blocked>>

debounceVars == <<now, wait, timeout, events>>

navVars == <<elements, initFunctions, currentSection, hash, displayed, activeNav, navs>>

nonPage == <<debounceVars, navVars>>

others == <<pageVars, nonPage>>

history == <<result, ref, intervening>>

scriptLocals == <<taxDeferredBalance, rothBalance, taxableBalance, currentSpending, data>>

\* new Date().getFullYear(): the calendar year, the same for the calls compared
CurrentYear == 2026

(***************************************************************************)
(* src/script.js: runProjection, one loop iteration at a time.             *)
(***************************************************************************)

\* if (year > 0) currentSpending *= (1 + inputs.inflationRate)
InflateSpending(spending, y, in) ==
    IF y > 0 THEN RMul(spending, RAdd(One, in.inflationRate)) ELSE spending

TotalSpendingThisYear_everyYear(spending, y, in) == RAdd(spending, in.addedSpend)

\* year === 0 ? currentSpending + inputs.addedSpend : currentSpending
TotalSpendingThisYear(spending, y, in) ==
    IF y = 0 THEN RAdd(spending, in.addedSpend) ELSE spending

TotalBalance(td, roth, taxable) == RAdd(RAdd(td, roth), taxable)

IsDepleted_strict(totalBalance) == RLt(totalBalance, Zero)

\* if (totalBalance <= 0)
IsDepleted(totalBalance) == RLe(totalBalance, Zero)

TotalIncome_noSocialSecurity(in) == RAdd(in.pensionIncome, in.annuityIncome)

\* inputs.pensionIncome + inputs.annuityIncome + inputs.socialSecurity
TotalIncome(in) == RAdd(RAdd(in.pensionIncome, in.annuityIncome), in.socialSecurity)

DepletedRecord_keepsIncome(projectionYear) ==
    [year |-> projectionYear,
     withdrawal |-> Zero,
     taxes |-> Zero,
     netSpending |-> TotalIncome(inputs),
     taxDeferredBalance |-> Zero,
     rothBalance |-> Zero,
     taxableBalance |-> Zero,
     totalBalance |-> Zero,
     percentWithdrawn |-> Zero,
     monthlyNet |-> RDiv(TotalIncome(inputs), Num(12))]

DepletedRecord(projectionYear) ==
    [year |-> projectionYear,
     withdrawal |-> Zero,
     taxes |-> Zero,
     netSpending |-> Zero,
     taxDeferredBalance |-> Zero,
     rothBalance |-> Zero,
     taxableBalance |-> Zero,
     totalBalance |-> Zero,
     percentWithdrawn |-> Zero,
     monthlyNet |-> Zero]

NetSpending_unclamped(totalSpendingThisYear, totalIncome) ==
    RSub(totalSpendingThisYear, totalIncome)

\* Math.max(0, totalSpendingThisYear - totalIncome)
NetSpending(totalSpendingThisYear, totalIncome) ==
    RMax(Zero, RSub(totalSpendingThisYear, totalIncome))

HasEnoughFunds_always(totalAvailable, remainingNeeded) == TRUE

\* if (totalAvailable >= remainingNeeded)
HasEnoughFunds(totalAvailable, remainingNeeded) == RLe(remainingNeeded, totalAvailable)

\* 15% tax on taxable account withdrawals
TaxableAccountTaxRate == Frac(15, 100)

(***************************************************************************)
(* The withdrawal blocks act on the locals                                 *)
(*   w = [td, roth, taxable, remainingNeeded, totalWithdrawal, totalTaxes] *)
(***************************************************************************)
WithdrawTaxDeferred_keepNeed(w, in) ==
    IF RLt(Zero, w.td)
    THEN LET withdrawal == RMin(w.remainingNeeded, w.td)
             taxes == RMul(withdrawal, in.effectiveTaxRate)
         IN  [w EXCEPT !.td = RSub(w.td, withdrawal),
                       !.totalWithdrawal = RAdd(w.totalWithdrawal, withdrawal),
                       !.totalTaxes = RAdd(w.totalTaxes, taxes)]
    ELSE w

WithdrawTaxDeferred_grossUp(w, in) ==
    IF RLt(Zero, w.td)
    THEN LET withdrawal == RMin(RDiv(w.remainingNeeded, RSub(One, in.effectiveTaxRate)), w.td)
             taxes == RMul(withdrawal, in.effectiveTaxRate)
         IN  [w EXCEPT !.td = RSub(w.td, withdrawal),
                       !.totalWithdrawal = RAdd(w.totalWithdrawal, withdrawal),
                       !.totalTaxes = RAdd(w.totalTaxes, taxes),
                       !.remainingNeeded = Zero]
    ELSE w

\* Withdraw from tax-deferred first
WithdrawTaxDeferred(w, in) ==
    IF RLt(Zero, w.td)
    THEN LET withdrawal == RMin(w.remainingNeeded, w.td)
             taxes == RMul(withdrawal, in.effectiveTaxRate)
         IN  [w EXCEPT !.td = RSub(w.td, withdrawal),
                       !.totalWithdrawal = RAdd(w.totalWithdrawal, withdrawal),
                       !.totalTaxes = RAdd(w.totalTaxes, taxes),
                       !.remainingNeeded = Zero]
    ELSE w

\* If we still need money after tax-deferred, use Roth (tax-free)
WithdrawRoth(w) ==
    IF RLt(Zero, w.remainingNeeded) /\ RLt(Zero, w.roth)
    THEN LET withdrawal == RMin(w.remainingNeeded, w.roth)
         IN  [w EXCEPT !.roth = RSub(w.roth, withdrawal),
                       !.totalWithdrawal = RAdd(w.totalWithdrawal, withdrawal),
                       !.remainingNeeded = RSub(w.remainingNeeded, withdrawal)]
    ELSE w

WithdrawTaxable_untaxed(w) ==
    IF RLt(Zero, w.remainingNeeded) /\ RLt(Zero, w.taxable)
    THEN LET withdrawal == RMin(w.remainingNeeded, w.taxable)
         IN  [w EXCEPT !.taxable = RSub(w.taxable, withdrawal),
                       !.totalWithdrawal = RAdd(w.totalWithdrawal, withdrawal),
                       !.remainingNeeded = Zero]
    ELSE w

\* If we still need money, use taxable account
WithdrawTaxable(w) ==
    IF RLt(Zero, w.remainingNeeded) /\ RLt(Zero, w.taxable)
    THEN LET withdrawal == RMin(w.remainingNeeded, w.taxable)
             taxes == RMul(withdrawal, TaxableAccountTaxRate)
         IN  [w EXCEPT !.taxable = RSub(w.taxable, withdrawal),
                       !.totalWithdrawal = RAdd(w.totalWithdrawal, withdrawal),
                       !.totalTaxes = RAdd(w.totalTaxes, taxes),
                       !.remainingNeeded = Zero]
    ELSE w

\* let remainingNeeded = netSpending; let totalWithdrawal = 0; let totalTaxes = 0
WithdrawalLocals(td, roth, taxable, netSpending) ==
    [td |-> td, roth |-> roth, taxable |-> taxable,
     remainingNeeded |-> netSpending, totalWithdrawal |-> Zero, totalTaxes |-> Zero]

\* the three stages of the withdrawal strategy, as <<after tax-deferred, after Roth, after taxable>>
WithdrawalStages(w, in) ==
    IF HasEnoughFunds(TotalBalance(w.td, w.roth, w.taxable), w.remainingNeeded)
    THEN LET a == WithdrawTaxDeferred(w, in)
             b == WithdrawRoth(a)
             c == WithdrawTaxable(b)
         IN  <<a, b, c>>
    ELSE <<w, w, w>>

Grow_none(balance, in) == balance

\* balance *= (1 + inputs.rateOfReturn)
Grow(balance, in) == RMul(balance, RAdd(One, in.rateOfReturn))

PercentWithdrawn_fraction(totalWithdrawal, totalBalance) ==
    IF RLt(Zero, totalBalance) THEN RDiv(totalWithdrawal, totalBalance) ELSE Zero

\* totalBalance > 0 ? (totalWithdrawal / totalBalance) * 100 : 0
PercentWithdrawn(totalWithdrawal, totalBalance) ==
    IF RLt(Zero, totalBalance)
    THEN RMul(RDiv(totalWithdrawal, totalBalance), Num(100))
    ELSE Zero

RecordTotalBalance_noTaxable(td, roth, taxable) == RAdd(td, roth)

\* totalBalance: taxDeferredBalance + rothBalance + taxableBalance
RecordTotalBalance(td, roth, taxable) == RAdd(RAdd(td, roth), taxable)

YearRecord_noIncome(projectionYear, w, totalIncome, totalBalance, td, roth, taxable) ==
    LET netSpendingAmount == RSub(w.totalWithdrawal, w.totalTaxes)
    IN  [year |-> projectionYear,
         withdrawal |-> w.totalWithdrawal,
         taxes |-> w.totalTaxes,
         netSpending |-> netSpendingAmount,
         income |-> totalIncome,
         taxDeferredBalance |-> td,
         rothBalance |-> roth,
         taxableBalance |-> taxable,
         totalBalance |-> RAdd(RAdd(td, roth), taxable),
         percentWithdrawn |-> PercentWithdrawn(w.totalWithdrawal, totalBalance),
         monthlyNet |-> RDiv(netSpendingAmount, Num(12))]

YearRecord(projectionYear, w, totalIncome, totalBalance, td, roth, taxable) ==
    LET netSpendingAmount == RAdd(RSub(w.totalWithdrawal, w.totalTaxes), totalIncome)
    IN  [year |-> projectionYear,
         withdrawal |-> w.totalWithdrawal,
         taxes |-> w.totalTaxes,
         netSpending |-> netSpendingAmount,
         income |-> totalIncome,
         taxDeferredBalance |-> td,
         rothBalance |-> roth,
         taxableBalance |-> taxable,
         totalBalance |-> RecordTotalBalance(td, roth, taxable),
         percentWithdrawn |-> PercentWithdrawn(w.totalWithdrawal, totalBalance),
         monthlyNet |-> RDiv(netSpendingAmount, Num(12))]

(***************************************************************************)
(* The values the form can hold (getInputValues).                          *)
(***************************************************************************)
Amounts(n) == {Num(k) : k \in 0..n}

ScriptInputs(rates, infls, spends, addeds, taxRates, tds, roths, txbls, years, pens, anns, secs) ==
    [rateOfReturn : rates, inflationRate : infls, yearlySpend : spends,
     addedSpend : addeds, effectiveTaxRate : taxRates,
     startingTaxDeferred : tds, startingRoth : roths, startingTaxable : txbls,
     projectionYears : years,
     pensionIncome : pens, annuityIncome : anns, socialSecurity : secs]

GridInputs ==
    ScriptInputs({Zero, Frac(1, 2)}, {Zero, Frac(1, 5)},
                 {One, Num(2)}, {Zero, One},
                 {Frac(13, 100), Frac(1, 2)},
                 Amounts(MaxBalance), Amounts(MaxBalance), Amounts(MaxBalance),
                 {MaxYears},
                 {Zero, One}, {Zero}, {Zero, Num(2)})

\* README defaults: 40,000 a year at 13% from 1,000,000 tax-deferred, one year, no growth
ReadmeScenario ==
    ScriptInputs({Zero}, {Zero}, {Num(40000)}, {Zero}, {Frac(13, 100)},
                 {Num(1000000)}, {Zero}, {Zero}, {1}, {Zero}, {Zero}, {Zero})

\* values validateInputs would reject
OutOfRangeInputs ==
    ScriptInputs({Zero}, {Zero}, {One}, {Zero}, {Frac(13, 100)},
                 {Num(-1), Zero, Num(2)}, {Zero, One}, {Zero}, {-1, 0, 1, 51},
                 {Zero}, {Zero}, {Zero})

\* 10,000 tax-deferred against a need of 50,000 a year, five years, no growth
ShortfallScenario ==
    ScriptInputs({Zero}, {Zero}, {Num(50000)}, {Zero}, {Frac(13, 100)},
                 {Num(10000)}, {Zero}, {Zero}, {5}, {Zero}, {Zero}, {Zero})

\* the same shortfall over the longest run the form allows
LongShortfallScenario ==
    ScriptInputs({Zero}, {Zero}, {Num(50000)}, {Zero}, {Frac(13, 100)},
                 {Num(10000)}, {Zero}, {Zero}, {50}, {Zero}, {Zero}, {Zero})

\* an overdrawn account under growth, with a pension
OverdrawnInputs ==
    ScriptInputs({Frac(1, 2)}, {Zero}, {One}, {Zero}, {Frac(13, 100)},
                 {Num(-1)}, {Zero}, {Zero}, {2}, {One}, {Zero}, {Zero})

AllScriptInputs ==
    GridInputs \cup ReadmeScenario \cup ShortfallScenario \cup OutOfRangeInputs
        \cup LongShortfallScenario \cup OverdrawnInputs

\* validateInputs(inputs).length === 0
ValidateInputsOk(in) ==
    /\ ~(RLt(in.rateOfReturn, Zero) \/ RLt(Frac(1, 2), in.rateOfReturn))
    /\ ~(RLt(in.inflationRate, Zero) \/ RLt(Frac(1, 5), in.inflationRate))
    /\ ~RLe(in.yearlySpend, Zero)
    /\ ~(RLt(in.effectiveTaxRate, Zero) \/ RLt(Frac(1, 2), in.effectiveTaxRate))
    /\ ~RLe(TotalBalance(in.startingTaxDeferred, in.startingRoth, in.startingTaxable), Zero)
    /\ ~(in.projectionYears < 1 \/ in.projectionYears > 50)

\* parseCurrencyInput drops every character but digits and the point: no amount is negative
ParsedAmountsOk(in) ==
    /\ RLe(Zero, in.yearlySpend) /\ RLe(Zero, in.addedSpend)
    /\ RLe(Zero, in.startingTaxDeferred) /\ RLe(Zero, in.startingRoth)
    /\ RLe(Zero, in.startingTaxable)
    /\ RLe(Zero, in.pensionIncome) /\ RLe(Zero, in.annuityIncome)
    /\ RLe(Zero, in.socialSecurity)

ValidInputs(in) == ValidateInputsOk(in) /\ ParsedAmountsOk(in)

\* the caller receives `returned` from a call made with `arguments`
Completed(arguments, returned) ==
    /\ result' = <<arguments, returned>>
    /\ ref' = IF ref = <<>> THEN <<arguments, returned>> ELSE ref
    /\ intervening' = (intervening \/ (ref # <<>> /\ ref[1] # arguments))

(***************************************************************************)
(* runProjection(inputs): entry, loop iterations, return.                  *)
(***************************************************************************)
\* runProjection(inputs) { ... }: the locals before the loop
EnterRunProjection ==
    /\ loaded = "script"
    /\ pc = "idle"
    /\ pc' = "loop"
    /\ year' = 0
    /\ data' = <<>>
    /\ trace' = <<>>
    /\ taxDeferredBalance' = inputs.startingTaxDeferred
    /\ rothBalance' = inputs.startingRoth
    /\ taxableBalance' = inputs.startingTaxable
    /\ currentSpending' = inputs.yearlySpend
    /\ UNCHANGED <<loaded, inputs, currentBalance, projectionData, history>>

\* a call of runProjection with the form's values
RunProjection ==
    /\ handler = "none"
    /\ EnterRunProjection
    /\ UNCHANGED isCalculating
    /\ UNCHANGED others

AfterDepletedYear_break(y, in) == in.projectionYears

\* continue: the loop goes on with the next year
AfterDepletedYear(y, in) == y + 1

\* an iteration that finds the funds depleted: push the zero record, continue
YearDepleted ==
    /\ loaded = "script"
    /\ pc = "loop"
    /\ year < inputs.projectionYears
    /\ LET totalBalance == TotalBalance(taxDeferredBalance, rothBalance, taxableBalance)
       IN  /\ IsDepleted(totalBalance)
           /\ currentSpending' = InflateSpending(currentSpending, year, inputs)
           /\ data' = Append(data, DepletedRecord(CurrentYear + year))
           /\ trace' = Append(trace,
                  [depleted |-> TRUE,
                   begin |-> <<taxDeferredBalance, rothBalance, taxableBalance>>])
    /\ year' = AfterDepletedYear(year, inputs)
    /\ UNCHANGED <<loaded, inputs, pc, taxDeferredBalance, rothBalance, taxableBalance,
                   currentBalance, projectionData, isCalculating, history>>
    /\ UNCHANGED others

\* an iteration with funds: spending need, withdrawal strategy, growth, record
YearWithdraw ==
    /\ loaded = "script"
    /\ pc = "loop"
    /\ year < inputs.projectionYears
    /\ LET spending == InflateSpending(currentSpending, year, inputs)
           totalSpendingThisYear == TotalSpendingThisYear(spending, year, inputs)
           totalBalance == TotalBalance(taxDeferredBalance, rothBalance, taxableBalance)
           totalIncome == TotalIncome(inputs)
           netSpending == NetSpending(totalSpendingThisYear, totalIncome)
           stages == WithdrawalStages(
                         WithdrawalLocals(taxDeferredBalance, rothBalance, taxableBalance,
                                          netSpending), inputs)
           w == stages[3]
           td == Grow(w.td, inputs)
           roth == Grow(w.roth, inputs)
           taxable == Grow(w.taxable, inputs)
       IN  /\ ~IsDepleted(totalBalance)
           /\ currentSpending' = spending
           /\ taxDeferredBalance' = td
           /\ rothBalance' = roth
           /\ taxableBalance' = taxable
           /\ data' = Append(data, YearRecord(CurrentYear + year, w, totalIncome,
                                              totalBalance, td, roth, taxable))
           /\ trace' = Append(trace,
                  [depleted |-> FALSE,
                   begin |-> <<taxDeferredBalance, rothBalance, taxableBalance>>,
                   spend |-> totalSpendingThisYear,
                   need |-> netSpending,
                   stages |-> stages])
    /\ year' = year + 1
    /\ UNCHANGED <<loaded, inputs, pc, currentBalance, projectionData, isCalculating, history>>
    /\ UNCHANGED others

\* return data; this.projectionData = this.runProjection(inputs)
LeaveRunProjection ==
    /\ loaded = "script"
    /\ pc = "loop"
    /\ year >= inputs.projectionYears
    /\ pc' = "idle"
    /\ projectionData' = data
    /\ Completed(inputs, data)
    /\ UNCHANGED <<loaded, inputs, year, scriptLocals, currentBalance, isCalculating, trace>>

\* the call of runProjection returns to its caller
ReturnData ==
    /\ handler = "none"
    /\ LeaveRunProjection
    /\ UNCHANGED others

(***************************************************************************)
(* src/js/retirement-calculator.js: calculateProjection and                *)
(* calculateAnnualProjection.  The form holds the parsed field values;     *)
(* rates are percentages.                                                  *)
(***************************************************************************)

\* parsed || fallback: 0 (and NaN) give the fallback
OrDefault(parsed, fallback) == IF parsed = Zero THEN fallback ELSE parsed

\* adjustForInflation(amount, years, inflationRate)
AdjustForInflation(amount, years, inflationRate) ==
    RMul(amount, RPow(RAdd(One, RDiv(inflationRate, Num(100))), years))

\* calculateTax(amount, taxRate)
CalculateTax(amount, taxRate) == RMul(amount, RDiv(taxRate, Num(100)))

\* the values calculateProjection reads from the form, with their fallbacks
FormValues(form) ==
    [rateOfReturn |-> OrDefault(form.rateOfReturn, Num(6)),
     inflationRate |-> OrDefault(form.inflationRate, Num(3)),
     yearlySpend |-> form.yearlySpend,
     taxRate |-> OrDefault(form.taxRate, Num(15)),
     years |-> IF form.years = 0 THEN 30 ELSE form.years,
     currentAge |-> IF form.currentAge = 0 THEN 65 ELSE form.currentAge,
     startingBalance |-> RAdd(RAdd(form.startingTaxDeferred, form.startingRoth),
                              form.startingTaxable),
     socialSecurity |-> form.socialSecurity,
     pension |-> form.pension,
     otherIncome |-> form.otherIncome]

\* year === 0 ? startingBalance : this.projectionData[year - 1].endingBalance
BeginningBalance(y, startingBalance, stored) ==
    IF y = 0 THEN startingBalance ELSE stored[y].endingBalance

\* calculateAnnualProjection(year, params), reading this.projectionData
CalculateAnnualProjection(y, params, stored) ==
    LET beginningBalance == BeginningBalance(y, params.startingBalance, stored)
        inflationAdjustedSpend == AdjustForInflation(params.yearlySpend, y, params.inflationRate)
        inflationAdjustedSS == AdjustForInflation(params.socialSecurity, y, params.inflationRate)
        inflationAdjustedPension == AdjustForInflation(params.pension, y, params.inflationRate)
        inflationAdjustedOtherIncome ==
            AdjustForInflation(params.otherIncome, y, params.inflationRate)
        totalIncome == RAdd(RAdd(inflationAdjustedSS, inflationAdjustedPension),
                            inflationAdjustedOtherIncome)
        withdrawalNeeded == RMax(Zero, RSub(inflationAdjustedSpend, totalIncome))
        taxes == CalculateTax(withdrawalNeeded, params.taxRate)
        totalWithdrawal == RAdd(withdrawalNeeded, taxes)
        growth == RMul(beginningBalance, RDiv(params.rateOfReturn, Num(100)))
        endingBalance == RSub(RAdd(beginningBalance, growth), totalWithdrawal)
    IN  [year |-> CurrentYear + y,
         age |-> params.currentAge + y,
         beginningBalance |-> beginningBalance,
         withdrawal |-> totalWithdrawal,
         taxes |-> taxes,
         growth |-> growth,
         endingBalance |-> endingBalance,
         socialSecurity |-> inflationAdjustedSS,
         pension |-> inflationAdjustedPension,
         otherIncome |-> inflationAdjustedOtherIncome,
         inflationAdjustedSpend |-> inflationAdjustedSpend]

KeptProjectionData == projectionData

\* this.projectionData = []
ClearedProjectionData == <<>>

CalculatorForms(rates, inflations, spends, taxRates, years, tds, roths, taxables, securities) ==
    [rateOfReturn : rates, inflationRate : inflations, yearlySpend : spends,
     taxRate : taxRates, years : years, currentAge : {0},
     startingTaxDeferred : tds, startingRoth : roths, startingTaxable : taxables,
     socialSecurity : securities, pension : {Zero}, otherIncome : {Zero}]

AllCalculatorForms ==
    CalculatorForms({Zero, Num(50)}, {Zero, Num(20)}, {One, Num(2)}, {Zero, Num(50)},
                    {MaxYears}, Amounts(MaxBalance), {Zero, One}, {Zero, One}, {Zero, One})

RanOutOfMoney_never(balance) == FALSE

\* if (currentBalance <= 0) break
RanOutOfMoney(balance) == RLe(balance, Zero)

\* calculateProjection(): entry
CalculateProjection ==
    /\ loaded = "calculator"
    /\ pc = "idle"
    /\ ~isCalculating
    /\ isCalculating' = TRUE
    /\ projectionData' = ClearedProjectionData
    /\ currentBalance' = FormValues(inputs).startingBalance
    /\ year' = 0
    /\ pc' = "loop"
    /\ UNCHANGED <<loaded, inputs, scriptLocals, trace, history>>
    /\ UNCHANGED others

\* one iteration: push the year's projection, stop when the money has run out
CalculateYear ==
    /\ loaded = "calculator"
    /\ pc = "loop"
    /\ year < FormValues(inputs).years
    /\ LET params == [FormValues(inputs) EXCEPT !.startingBalance = currentBalance]
           projection == CalculateAnnualProjection(year, params, projectionData)
       IN  /\ projectionData' = Append(projectionData, projection)
           /\ currentBalance' = projection.endingBalance
           /\ pc' = IF RanOutOfMoney(projection.endingBalance) THEN "break" ELSE "loop"
    /\ year' = year + 1
    /\ UNCHANGED <<loaded, inputs, scriptLocals, isCalculating, trace, history>>
    /\ UNCHANGED others

\* return this.projectionData; finally this.isCalculating = false
ReturnProjectionData ==
    /\ loaded = "calculator"
    /\ pc = "break" \/ (pc = "loop" /\ year >= FormValues(inputs).years)
    /\ pc' = "idle"
    /\ isCalculating' = FALSE
    /\ Completed(inputs, projectionData)
    /\ UNCHANGED <<loaded, inputs, year, scriptLocals, currentBalance, projectionData, trace>>
    /\ UNCHANGED others

(***************************************************************************)
(* The page: one of the two scripts, a form with values in it.             *)
(***************************************************************************)
InitCalculator(scriptForms, calculatorForms) ==
    /\ loaded \in {"script", "calculator"}
    /\ inputs \in IF loaded = "script" THEN scriptForms ELSE calculatorForms
    /\ pc = "idle"
    /\ year = 0
    /\ taxDeferredBalance = Zero
    /\ rothBalance = Zero
    /\ taxableBalance = Zero
    /\ currentSpending = Zero
    /\ data = <<>>
    /\ currentBalance = Zero
    /\ projectionData = <<>>
    /\ isCalculating = FALSE
    /\ trace = <<>>
    /\ result = <<>>
    /\ ref = <<>>
    /\ intervening = FALSE
    /\ handler = "none"
    /\ log = <<>>
    /\ before = <<>>
    /\ summary = <<>>
    /\ tableRows = <<>>
    /\ blocked = 0
    /\ now = 0
    /\ wait = 0
    /\ timeout = {}
    /\ events = <<>>

\* a page without the application controller
NoAppController ==
    /\ elements = {}
    /\ initFunctions = {}
    /\ currentSection = "dashboard"
    /\ hash = ""
    /\ displayed = {}
    /\ activeNav = {}
    /\ navs = <<>>

InitWith(scriptForms, calculatorForms) ==
    InitCalculator(scriptForms, calculatorForms) /\ NoAppController

Init == InitWith(AllScriptInputs, AllCalculatorForms)

Next ==
    \/ RunProjection
    \/ YearDepleted
    \/ YearWithdraw
    \/ ReturnData
    \/ CalculateProjection
    \/ CalculateYear
    \/ ReturnProjectionData

Spec == Init /\ [][Next]_vars

(***************************************************************************)
(* A session: the user edits the form between projections.                 *)
(***************************************************************************)
SessionScriptInputs ==
    ScriptInputs({Zero, Frac(1, 2)}, {Zero}, {One, Num(2)}, {Zero}, {Frac(13, 100)},
                 {One, Num(2)}, {Zero, One}, {Zero}, {2}, {Zero}, {Zero}, {Zero})

SessionCalculatorForms ==
    CalculatorForms({Zero, Num(50)}, {Zero}, {One, Num(2)}, {Zero},
                    {2}, {One, Num(2)}, {Zero, Num(2)}, {Zero}, {Zero})

EditForm ==
    /\ pc = "idle"
    /\ inputs' \in (IF loaded = "script" THEN SessionScriptInputs ELSE SessionCalculatorForms)
                       \ {inputs}
    /\ UNCHANGED <<loaded, pc, year, scriptLocals, currentBalance, projectionData,
                   isCalculating, trace, history>>
    /\ UNCHANGED others

InitSession == InitWith(SessionScriptInputs, SessionCalculatorForms)

NextSession == Next \/ EditForm

SpecSession == InitSession /\ [][NextSession]_vars

(***************************************************************************)
(* src/script.js: calculateAndUpdate, one step at a time, and the parts of *)
(* updateUI that fill the summary cards and the projection table.          *)
(***************************************************************************)

SetLoadingState_stuck(isLoading) == TRUE

\* this.isCalculating = isLoading
SetLoadingState(isLoading) == isLoading

\* updateTable: the classes added to the row of one record
RowClasses(row) ==
    IF RLt(row.totalBalance, RMul(row.withdrawal, Num(5))) THEN {"bg-warning"}
    ELSE IF RLe(row.totalBalance, Zero) THEN {"bg-danger"}
    ELSE {}

\* data.forEach(row => ...): one row per record
TableRows(d) == [i \in 1..Len(d) |-> RowClasses(d[i])]

\* data.reduce((sum, row) => sum + row[field], 0)
RECURSIVE SumOf(_, _)
SumOf(d, field) ==
    IF d = <<>> THEN Zero
    ELSE RAdd(SumOf(SubSeq(d, 1, Len(d) - 1), field), d[Len(d)][field])

\* the number of records with a withdrawal
RECURSIVE WithdrawalYears(_)
WithdrawalYears(d) ==
    IF d = <<>> THEN 0
    ELSE WithdrawalYears(SubSeq(d, 1, Len(d) - 1))
             + (IF RLt(Zero, d[Len(d)].withdrawal) THEN 1 ELSE 0)

AvgWithdrawal_withdrawalYears(d) ==
    IF WithdrawalYears(d) > 0
    THEN RDiv(SumOf(d, "percentWithdrawn"), Num(WithdrawalYears(d)))
    ELSE Zero

\* data.length > 0 ? data.reduce((sum, row) => sum + row.percentWithdrawn, 0) / data.length : 0
AvgWithdrawal(d) ==
    IF Len(d) > 0 THEN RDiv(SumOf(d, "percentWithdrawn"), Num(Len(d))) ELSE Zero

\* finalBalance > totalStarting * 0.5 ? text-success : finalBalance > 0 ? text-warning : text-danger
FinalBalanceClass(finalBalance, totalStarting) ==
    IF RLt(RMul(totalStarting, Frac(1, 2)), finalBalance) THEN "text-success"
    ELSE IF RLt(Zero, finalBalance) THEN "text-warning"
    ELSE "text-danger"

\* updateSummaryCards(inputs, data): the values handed to the cards, for data.length > 0
SummaryCards(in, d) ==
    LET totalStarting == RAdd(RAdd(in.startingTaxDeferred, in.startingRoth), in.startingTaxable)
        finalBalance == d[Len(d)].totalBalance
    IN  [totalStarting |-> totalStarting,
         finalBalance |-> finalBalance,
         totalTaxes |-> SumOf(d, "taxes"),
         avgWithdrawal |-> AvgWithdrawal(d),
         finalYear |-> in.projectionYears,
         finalBalanceClass |-> FinalBalanceClass(finalBalance, totalStarting)]

\* calculateAndUpdate(): past the isCalculating guard, setLoadingState(true)
CalculateAndUpdate ==
    /\ loaded = "script"
    /\ handler = "none"
    /\ pc = "idle"
    /\ ~isCalculating
    /\ isCalculating' = SetLoadingState(TRUE)
    /\ handler' = "validate"
    /\ log' = <<>>
    /\ before' = projectionData
    /\ UNCHANGED <<loaded, inputs, pc, year, scriptLocals, currentBalance, projectionData,
                   trace, history, summary, tableRows, blocked>>
    /\ UNCHANGED nonPage

FormValidationFails_runsAnyway ==
    /\ handler = "validate"
    /\ EnterRunProjection
    /\ handler' = "projecting"
    /\ log' = Append(Append(log, "invalid"), "runProjection")
    /\ UNCHANGED <<isCalculating, before, summary, tableRows, blocked>>
    /\ UNCHANGED nonPage

\* if (!this.isFormValid()) return
FormValidationFails ==
    /\ handler = "validate"
    /\ handler' = "finally"
    /\ log' = Append(log, "invalid")
    /\ UNCHANGED <<loaded, inputs, pc, year, scriptLocals, currentBalance, projectionData,
                   isCalculating, trace, history, before, summary, tableRows, blocked>>
    /\ UNCHANGED nonPage

\* the form is valid: const inputs = this.getInputValues(); this.runProjection(inputs)
FormValidationPasses ==
    /\ handler = "validate"
    /\ EnterRunProjection
    /\ handler' = "projecting"
    /\ log' = Append(Append(log, "valid"), "runProjection")
    /\ UNCHANGED <<isCalculating, before, summary, tableRows, blocked>>
    /\ UNCHANGED nonPage

\* getInputValues throws (an element of the form is missing): catch, showError
ErrorCaught ==
    /\ handler = "validate"
    /\ handler' = "finally"
    /\ log' = Append(Append(log, "valid"), "showError")
    /\ UNCHANGED <<loaded, inputs, pc, year, scriptLocals, currentBalance, projectionData,
                   isCalculating, trace, history, before, summary, tableRows, blocked>>
    /\ UNCHANGED nonPage

\* this.projectionData = this.runProjection(inputs)
ProjectionReturns ==
    /\ handler = "projecting"
    /\ LeaveRunProjection
    /\ handler' = "returned"
    /\ UNCHANGED <<log, before, summary, tableRows, blocked>>
    /\ UNCHANGED nonPage

\* projectionData.length > 0: updateUI (summary cards, table), charts when Chart is defined
UpdateUI ==
    /\ handler = "returned"
    /\ Len(projectionData) > 0
    /\ summary' = SummaryCards(inputs, projectionData)
    /\ tableRows' = TableRows(projectionData)
    /\ \E chartDefined \in BOOLEAN :
           log' = IF chartDefined THEN Append(Append(log, "updateUI"), "updateCharts")
                                  ELSE Append(log, "updateUI")
    /\ handler' = "finally"
    /\ UNCHANGED <<loaded, inputs, pc, year, scriptLocals, currentBalance, projectionData,
                   isCalculating, trace, history, before, blocked>>
    /\ UNCHANGED nonPage

\* no records: showError('Failed to generate projection data. ...')
ShowNoData ==
    /\ handler = "returned"
    /\ Len(projectionData) = 0
    /\ log' = Append(log, "showError")
    /\ handler' = "finally"
    /\ UNCHANGED <<loaded, inputs, pc, year, scriptLocals, currentBalance, projectionData,
                   isCalculating, trace, history, before, summary, tableRows, blocked>>
    /\ UNCHANGED nonPage

\* finally { this.setLoadingState(false) }
Finally ==
    /\ handler = "finally"
    /\ isCalculating' = SetLoadingState(FALSE)
    /\ handler' = "none"
    /\ UNCHANGED <<loaded, inputs, pc, year, scriptLocals, currentBalance, projectionData,
                   trace, history, log, before, summary, tableRows, blocked>>
    /\ UNCHANGED nonPage

KeepFlag_cleared(flag) == FALSE

\* if (this.isCalculating) return: before the try, so the finally block does not run
KeepFlag(flag) == flag

\* a call of calculateAndUpdate or calculateProjection made while one is running
CallWhileCalculating ==
    /\ isCalculating
    /\ blocked < MaxBlockedCalls
    /\ blocked' = blocked + 1
    /\ isCalculating' = KeepFlag(isCalculating)
    /\ UNCHANGED <<loaded, inputs, pc, year, scriptLocals, currentBalance, projectionData,
                   trace, history, handler, log, before, summary, tableRows>>
    /\ UNCHANGED nonPage

\* calculateProjection(): an element of the form is missing, reading its value throws
CalculateProjectionThrows ==
    /\ loaded = "calculator"
    /\ pc = "idle"
    /\ ~isCalculating
    /\ isCalculating' = TRUE
    /\ pc' = "catch"
    /\ UNCHANGED <<loaded, inputs, year, scriptLocals, currentBalance, projectionData,
                   trace, history>>
    /\ UNCHANGED others

\* catch (error) { return [] } finally { this.isCalculating = false }
CatchError ==
    /\ loaded = "calculator"
    /\ pc = "catch"
    /\ pc' = "idle"
    /\ isCalculating' = FALSE
    /\ Completed(inputs, <<>>)
    /\ UNCHANGED <<loaded, inputs, year, scriptLocals, currentBalance, projectionData, trace>>
    /\ UNCHANGED others

\* the forms of the page: balances that last, run out, or are never enough; no years at all
PageScriptInputs ==
    ScriptInputs({Zero, Frac(1, 2)}, {Zero}, {One, Num(2)}, {Zero}, {Frac(13, 100)},
                 Amounts(MaxBalance), {Zero, One}, {Zero, One}, {0, MaxYears},
                 {Zero}, {Zero}, {Zero})

PageCalculatorForms ==
    CalculatorForms({Zero, Num(50)}, {Zero}, {One, Num(2)}, {Zero, Num(50)},
                    {MaxYears}, Amounts(MaxBalance), {Zero, One}, {Zero}, {Zero})

InitPage == InitWith(PageScriptInputs, PageCalculatorForms)

NextPage ==
    \/ CalculateAndUpdate
    \/ FormValidationFails
    \/ FormValidationPasses
    \/ ErrorCaught
    \/ YearDepleted
    \/ YearWithdraw
    \/ ProjectionReturns
    \/ UpdateUI
    \/ ShowNoData
    \/ Finally
    \/ CallWhileCalculating
    \/ CalculateProjection
    \/ CalculateYear
    \/ ReturnProjectionData
    \/ CalculateProjectionThrows
    \/ CatchError

SpecPage == InitPage /\ [][NextPage]_vars

(***************************************************************************)
(* debounce(func, wait) of both scripts: the returned function, its timer. *)
(***************************************************************************)
engineVars ==
    <<loaded, inputs, pc, year, scriptLocals, currentBalance, projectionData,
      isCalculating, trace, history>>

\* the arguments a call of the debounced function can carry
Arguments == {"a", "b"}

ClearTimeout_forgotten(timers) == timers

\* clearTimeout(timeout): the closure's pending timer, if any, is cancelled
ClearTimeout(timers) == {}

\* setTimeout(later, wait), with the arguments `later` closes over
SetTimeout(time, delay, args) == <<time + delay, args>>

\* the number of calls of the debounced function so far
Calls == Cardinality({k \in 1..Len(events) : events[k].kind = "call"})

\* debounce(func, wait): the closure is created, with no timer
Debounce ==
    /\ wait = 0
    /\ \E w \in 1..MaxWait : wait' = w
    /\ UNCHANGED <<now, timeout, events>>
    /\ UNCHANGED <<engineVars, pageVars, navVars>>

\* executedFunction(...args): clearTimeout(timeout); timeout = setTimeout(later, wait)
ExecutedFunction ==
    /\ wait > 0
    /\ Calls < MaxCalls
    /\ now + wait <= MaxTime
    /\ \E args \in Arguments :
           /\ timeout' = ClearTimeout(timeout) \cup {SetTimeout(now, wait, args)}
           /\ events' = Append(events, [kind |-> "call", at |-> now, args |-> args])
    /\ UNCHANGED <<now, wait>>
    /\ UNCHANGED <<engineVars, pageVars, navVars>>

\* later(): a timer that is due fires: clearTimeout(timeout); func(...args)
Later ==
    /\ \E timer \in timeout :
           /\ now >= timer[1]
           /\ timeout' = ClearTimeout(timeout \ {timer})
           /\ events' = Append(events, [kind |-> "run", at |-> now, args |-> timer[2]])
    /\ UNCHANGED <<now, wait>>
    /\ UNCHANGED <<engineVars, pageVars, navVars>>

\* time passes
Tick ==
    /\ now < MaxTime
    /\ now' = now + 1
    /\ UNCHANGED <<wait, timeout, events>>
    /\ UNCHANGED <<engineVars, pageVars, navVars>>

InitDebounce == InitWith(ReadmeScenario, ReadmeScenario) /\ loaded = "script"

NextDebounce == Debounce \/ ExecutedFunction \/ Later \/ Tick

\* a timer that is due fires, and time does not stop
SpecDebounce ==
    InitDebounce /\ [][NextDebounce]_vars /\ WF_vars(Later) /\ WF_vars(Tick)

(***************************************************************************)
(* src/unnamed/part_000: AppController.  navigateTo and loadSection run up *)
(* to their awaits; section names are taken as already normalised, and a   *)
(* content element's id is its section's name.                             *)
(***************************************************************************)
Sections == {"dashboard", "projections", "settings"}

\* the sections a click, the URL hash or a caller can ask for
Requests == Sections \cup {"nowhere"}

\* the nav items: [data-section] of .nav-item
NavItems == Sections

\* findSectionElement(section): the element, or null
FindSectionElement(section) == IF section \in elements THEN section ELSE "null"

\* updateActiveNav(section): the items whose data-section is `section` are active
UpdateActiveNav(section) == {item \in NavItems : item = section}

\* navigateTo: item.classList.toggle('active', isActive) over the nav items
ToggleActive(normalizedSection) == {item \in NavItems : item = normalizedSection}

\* loadSection(section) up to its await or its return: hide all sections, find the
\* element (falling back to loadSection('dashboard')), show it, call its init function
RECURSIVE LoadSection(_)
LoadSection(section) ==
    LET sectionElement == FindSectionElement(section)
    IN  IF sectionElement = "null"
        THEN IF section # "dashboard"
             THEN LoadSection("dashboard")
             ELSE [displayed |-> {}, awaits |-> FALSE, returned |-> FALSE,
                   sectionElement |-> "null", activeNav |-> activeNav]
        ELSE IF sectionElement \in initFunctions
             THEN [displayed |-> {sectionElement}, awaits |-> TRUE, returned |-> FALSE,
                   sectionElement |-> sectionElement, activeNav |-> activeNav]
             ELSE [displayed |-> {sectionElement}, awaits |-> FALSE, returned |-> TRUE,
                   sectionElement |-> sectionElement,
                   activeNav |-> UpdateActiveNav(sectionElement)]

\* the frame of a navigateTo that has set currentSection and called loadSection
Frame(requested, section, previousSection, load) ==
    [requested |-> requested,
     section |-> section,
     previousSection |-> previousSection,
     sectionElement |-> load.sectionElement,
     loadSuccess |-> load.returned,
     pc |-> IF load.awaits THEN "init" ELSE "load"]

\* a navigateTo that has returned
Returned(requested, section, previousSection) ==
    [requested |-> requested, section |-> section, previousSection |-> previousSection,
     sectionElement |-> "null", loadSuccess |-> FALSE, pc |-> "done"]

\* the earlier calls that are awaiting an init function inside loadSection
AwaitingInit == {c \in 1..Len(navs) : navs[c].pc = "init"}

\* no continuation is waiting in the microtask queue
NoMicrotask == \A c \in 1..Len(navs) : navs[c].pc # "load"

\* navigateTo(section): a click on a nav link, or a caller; up to await this.loadSection
NavigateTo ==
    /\ Len(navs) < MaxNavigations
    /\ NoMicrotask
    /\ \E section \in Requests :
           IF section = currentSection
           THEN /\ navs' = Append(navs, Returned(section, section, currentSection)
                                        @@ [overlaps |-> AwaitingInit])
                /\ UNCHANGED <<currentSection, hash, displayed, activeNav>>
           ELSE LET load == LoadSection(section)
                IN  /\ currentSection' = section
                    /\ hash' = section
                    /\ displayed' = load.displayed
                    /\ activeNav' = load.activeNav
                    /\ navs' = Append(navs, Frame(section, section, currentSection, load)
                                            @@ [overlaps |-> AwaitingInit])
    /\ UNCHANGED <<elements, initFunctions>>
    /\ UNCHANGED <<engineVars, pageVars, debounceVars>>

\* the init function awaited in loadSection settles: updateActiveNav, return true
InitReturns ==
    /\ NoMicrotask
    /\ \E c \in 1..Len(navs) :
           /\ navs[c].pc = "init"
           /\ activeNav' = UpdateActiveNav(navs[c].sectionElement)
           /\ navs' = [navs EXCEPT ![c].pc = "load", ![c].loadSuccess = TRUE]
    /\ UNCHANGED <<elements, initFunctions, currentSection, hash, displayed>>
    /\ UNCHANGED <<engineVars, pageVars, debounceVars>>

\* navigateTo after await this.loadSection: mark the nav item, or revert and fall back
LoadReturns ==
    /\ \E c \in 1..Len(navs) :
           LET frame == navs[c]
           IN  /\ frame.pc = "load"
               /\ IF frame.loadSuccess
                  THEN /\ activeNav' = ToggleActive(frame.section)
                       /\ navs' = [navs EXCEPT ![c].pc = "done"]
                       /\ UNCHANGED <<currentSection, hash, displayed>>
                  ELSE IF frame.section # "dashboard" /\ frame.previousSection # "dashboard"
                       THEN LET load == LoadSection("dashboard")
                            IN  /\ currentSection' = "dashboard"
                                /\ hash' = "dashboard"
                                /\ displayed' = load.displayed
                                /\ activeNav' = load.activeNav
                                /\ navs' = [navs EXCEPT ![c] =
                                               Frame(frame.requested, "dashboard",
                                                     frame.previousSection, load)
                                                   @@ [overlaps |-> frame.overlaps]]
                       ELSE /\ currentSection' = frame.previousSection
                            /\ navs' = [navs EXCEPT ![c].pc = "done"]
                            /\ UNCHANGED <<hash, displayed, activeNav>>
    /\ UNCHANGED <<elements, initFunctions>>
    /\ UNCHANGED <<engineVars, pageVars, debounceVars>>

\* new AppController() on a page without a hash: currentSection = 'dashboard', and
\* loadSection('dashboard') has run
AppControllerConstructed ==
    /\ elements \in (SUBSET Sections) \ {{}}
    /\ initFunctions \in SUBSET Sections
    /\ currentSection = "dashboard"
    /\ hash = ""
    /\ displayed = {e \in elements : e = "dashboard"}
    /\ activeNav = {e \in elements : e = "dashboard"}
    /\ navs = <<>>

InitNav ==
    /\ InitCalculator(ReadmeScenario, ReadmeScenario)
    /\ loaded = "script"
    /\ AppControllerConstructed

NextNav == NavigateTo \/ InitReturns \/ LoadReturns

SpecNav == InitNav /\ [][NextNav]_vars

(***************************************************************************)
(* Properties of runProjection.  Record i of data and trace[i] describe    *)
(* the same simulated year.                                                *)
(***************************************************************************)
Years == 1..Len(data)

Active(i) == ~trace[i].depleted

BeginTotal(i) == TotalBalance(trace[i].begin[1], trace[i].begin[2], trace[i].begin[3])

\* amount taken from each account in year i: balance before the strategy minus balance after it
FromTaxDeferred(i) == RSub(trace[i].begin[1], trace[i].stages[3].td)
FromRoth(i) == RSub(trace[i].begin[2], trace[i].stages[3].roth)
FromTaxable(i) == RSub(trace[i].begin[3], trace[i].stages[3].taxable)

RunsScript == loaded = "script" /\ ValidInputs(inputs)

\* C1: in every year whose beginning total balance covers the net cash need, the three
\* accounts together withdraw exactly the net cash need (a partial tax-deferred draw
\* leaves the remainder to the Roth and then the taxable account).
C1_WithdrawsExactlyTheNeed ==
    RunsScript =>
        \A i \in Years :
            (Active(i) /\ RLe(trace[i].need, BeginTotal(i))) =>
                /\ data[i].withdrawal = trace[i].need
                /\ RAdd(RAdd(FromTaxDeferred(i), FromRoth(i)), FromTaxable(i)) = trace[i].need

\* C2: once a record has total balance 0, every later record has total balance 0,
\* withdrawal 0, taxes 0, net spending 0 and all three balances 0.
C2_DepletedIsAbsorbing ==
    RunsScript =>
        \A i \in Years : \A j \in Years :
            (i < j /\ data[i].totalBalance = Zero) =>
                /\ data[j].totalBalance = Zero
                /\ data[j].withdrawal = Zero
                /\ data[j].taxes = Zero
                /\ data[j].netSpending = Zero
                /\ data[j].taxDeferredBalance = Zero
                /\ data[j].rothBalance = Zero
                /\ data[j].taxableBalance = Zero

\* a run that spends its last money in one year and emits a record for the next
C2_Witness ==
    /\ RunsScript
    /\ RLt(Zero, TotalIncome(inputs))
    /\ \E i \in Years : \E j \in Years :
           i < j /\ Active(i) /\ data[i].totalBalance = Zero /\ RLt(Zero, data[i].withdrawal)

\* C3: the beginning total balance of year i+1 (the sum of the three balances before
\* that year's withdrawal) equals the ending total balance stored in the record of year
\* i, in runProjection and in calculateProjection / calculateAnnualProjection.
C3_BalanceCarryForward ==
    /\ RunsScript =>
           \A i \in Years : i + 1 \in Years => BeginTotal(i + 1) = data[i].totalBalance
    /\ loaded = "calculator" =>
           \A i \in 1..Len(projectionData) :
               i + 1 <= Len(projectionData) =>
                   projectionData[i + 1].beginningBalance = projectionData[i].endingBalance

\* two consecutive years with money in all three accounts, a withdrawal and growth
C3_Witness ==
    /\ RunsScript
    /\ RLt(Zero, inputs.rateOfReturn)
    /\ \E i \in Years :
           /\ i + 1 \in Years /\ Active(i) /\ Active(i + 1)
           /\ RLt(Zero, data[i].withdrawal)
           /\ RLt(Zero, data[i].taxDeferredBalance)
           /\ RLt(Zero, data[i].rothBalance)
           /\ RLt(Zero, data[i].taxableBalance)

\* C4: for valid parameters every currency field of every record is >= 0.
C4_NonNegative ==
    RunsScript =>
        \A i \in Years :
            /\ RLe(Zero, data[i].withdrawal)
            /\ RLe(Zero, data[i].taxes)
            /\ RLe(Zero, data[i].netSpending)
            /\ RLe(Zero, data[i].taxDeferredBalance)
            /\ RLe(Zero, data[i].rothBalance)
            /\ RLe(Zero, data[i].taxableBalance)
            /\ RLe(Zero, data[i].totalBalance)
            /\ RLe(Zero, data[i].monthlyNet)

\* a year in which income exceeds the spending, and a year in which half the withdrawal is tax
C4_Witness ==
    /\ RunsScript
    /\ \E i \in Years : Active(i) /\ RLt(trace[i].spend, TotalIncome(inputs))
                                  /\ RLt(Zero, BeginTotal(i))

\* C5: the Roth or the taxable balance is reduced only if the tax-deferred balance is 0
\* after the tax-deferred draw, and the taxable balance only if the Roth balance is
\* also 0 after its draw.
C5_WithdrawalOrdering ==
    RunsScript =>
        \A i \in Years :
            Active(i) =>
                /\ (FromRoth(i) # Zero \/ FromTaxable(i) # Zero) => trace[i].stages[1].td = Zero
                /\ FromTaxable(i) # Zero => trace[i].stages[2].roth = Zero

\* a year that empties the Roth account and goes on to the taxable account
C5_Witness ==
    /\ RunsScript
    /\ \E i \in Years : Active(i) /\ RLt(Zero, FromRoth(i)) /\ RLt(Zero, FromTaxable(i))

\* C6: taxes = tax-deferred withdrawal x effectiveTaxRate + taxable withdrawal x 0.15;
\* Roth withdrawals add no tax.
C6_TaxComputation ==
    RunsScript =>
        \A i \in Years :
            Active(i) =>
                data[i].taxes = RAdd(RMul(FromTaxDeferred(i), inputs.effectiveTaxRate),
                                     RMul(FromTaxable(i), Frac(15, 100)))

\* a run with a taxed tax-deferred year and a year drawing on Roth and taxable together
C6_Witness ==
    /\ RunsScript
    /\ \E i \in Years : Active(i) /\ RLt(Zero, FromTaxDeferred(i))
    /\ \E i \in Years : Active(i) /\ RLt(Zero, FromRoth(i)) /\ RLt(Zero, FromTaxable(i))

\* C7: in a year whose beginning total balance is positive but below the net cash need
\* nothing is withdrawn, withdrawal and taxes are 0 and every account ends at its
\* beginning balance times (1 + rateOfReturn); 10000 against 50000 stays 10000.
C7_NoPartialWithdrawal ==
    RunsScript =>
        /\ \A i \in Years :
               (Active(i) /\ RLt(BeginTotal(i), trace[i].need)) =>
                   /\ FromTaxDeferred(i) = Zero
                   /\ FromRoth(i) = Zero
                   /\ FromTaxable(i) = Zero
                   /\ data[i].withdrawal = Zero
                   /\ data[i].taxes = Zero
                   /\ data[i].taxDeferredBalance
                          = RMul(trace[i].begin[1], RAdd(One, inputs.rateOfReturn))
                   /\ data[i].rothBalance
                          = RMul(trace[i].begin[2], RAdd(One, inputs.rateOfReturn))
                   /\ data[i].taxableBalance
                          = RMul(trace[i].begin[3], RAdd(One, inputs.rateOfReturn))
        /\ inputs \in ShortfallScenario =>
               \A i \in Years : /\ data[i].withdrawal = Zero
                                /\ data[i].taxDeferredBalance = Num(10000)
                                /\ data[i].totalBalance = Num(10000)

\* a year of growth only, with money in the tax-deferred and the taxable account
C7_Witness ==
    /\ RunsScript
    /\ RLt(Zero, inputs.rateOfReturn)
    /\ \E i \in Years : Active(i) /\ RLt(BeginTotal(i), trace[i].need)
                                  /\ RLt(Zero, trace[i].begin[1])
                                  /\ RLt(Zero, trace[i].begin[3])

\* C8: 40000 a year at 13% from 1000000 tax-deferred, no growth, no inflation, no
\* income, one year: withdrawal 40000, taxes 5200, net spending 34800, balance 960000.
C8_ReadmeScenario ==
    (loaded = "script" /\ result # <<>> /\ result[1] \in ReadmeScenario) =>
        /\ Len(result[2]) = 1
        /\ result[2][1].withdrawal = Num(40000)
        /\ result[2][1].taxes = Num(5200)
        /\ result[2][1].netSpending = Num(34800)
        /\ result[2][1].taxDeferredBalance = Num(960000)
        /\ result[2][1].totalBalance = Num(960000)

C8_Witness == loaded = "script" /\ result # <<>> /\ result[1] \in ReadmeScenario

\* C9: a call made with the arguments of the first call returns the sequence the first
\* call returned, whatever calls were made in between (runProjection, and
\* calculateProjection with calculateAnnualProjection).
C9_Idempotent ==
    (result # <<>> /\ ref # <<>> /\ result[1] = ref[1]) => result[2] = ref[2]

\* the first call's arguments used again after a call with other arguments
C9_Witness ==
    /\ intervening
    /\ pc = "idle"
    /\ result # <<>> /\ ref # <<>> /\ result[1] = ref[1]
    /\ Len(result[2]) >= 2

\* the parameters the engine is to refuse: a negative starting balance, a sum of
\* starting balances <= 0, projectionYears outside [1, 50]
MustRaiseParameterError(in) ==
    \/ RLt(in.startingTaxDeferred, Zero)
    \/ RLt(in.startingRoth, Zero)
    \/ RLt(in.startingTaxable, Zero)
    \/ RLe(TotalBalance(in.startingTaxDeferred, in.startingRoth, in.startingTaxable), Zero)
    \/ in.projectionYears < 1
    \/ in.projectionYears > 50

\* C10: runProjection raises a ParameterError, and returns no result sequence, when a
\* starting balance is negative, the balances sum to <= 0 or projectionYears is outside
\* [1, 50].
C10_RejectsInvalidParameters ==
    (loaded = "script" /\ result # <<>>) => ~MustRaiseParameterError(result[1])

\* a year with funds that fall short of the net cash need
Shortfall(i) == Active(i) /\ RLt(BeginTotal(i), trace[i].need)

\* yearlySpend x (1 + inflationRate)^y
InflatedBase(y) == RMul(inputs.yearlySpend, RPow(RAdd(One, inputs.inflationRate), y))

\* C11: the nominal spend of year 0 is yearlySpend + addedSpend and that of year y > 0 is
\* yearlySpend x (1 + inflationRate)^y; the one-time addition is never compounded, and
\* the base compounds every year, also through years without a withdrawal.
C11_SpendingNeed ==
    loaded = "script" =>
        /\ \A i \in Years :
               Active(i) =>
                   trace[i].spend = IF i = 1 THEN RAdd(inputs.yearlySpend, inputs.addedSpend)
                                             ELSE InflatedBase(i - 1)
        /\ (pc = "loop" /\ year >= 1) => currentSpending = InflatedBase(year - 1)

\* inflation and a one-time addition, a year without withdrawal, then a later year
C11_Witness ==
    /\ RunsScript
    /\ RLt(Zero, inputs.inflationRate)
    /\ RLt(Zero, inputs.addedSpend)
    /\ \E i \in Years : \E j \in Years : i < j /\ Shortfall(i) /\ Active(j) /\ j >= 3

\* C12: a year whose beginning total balance is <= 0 emits a record whose withdrawal,
\* taxes, netSpending, monthlyNet, percentWithdrawn and balances are all 0, whatever the
\* income; nothing is withdrawn, nothing grows, and the run goes on to the next year.
C12_DepletionCheck ==
    loaded = "script" =>
        /\ \A i \in Years :
               RLe(BeginTotal(i), Zero) =>
                   /\ trace[i].depleted
                   /\ data[i].withdrawal = Zero
                   /\ data[i].taxes = Zero
                   /\ data[i].netSpending = Zero
                   /\ data[i].monthlyNet = Zero
                   /\ data[i].percentWithdrawn = Zero
                   /\ data[i].taxDeferredBalance = Zero
                   /\ data[i].rothBalance = Zero
                   /\ data[i].taxableBalance = Zero
                   /\ data[i].totalBalance = Zero
                   /\ i + 1 \in Years => trace[i + 1].begin = trace[i].begin
        /\ (pc = "idle" /\ result # <<>> /\ \E i \in Years : trace[i].depleted) =>
               Len(result[2]) = inputs.projectionYears

\* a depleted year with a pension coming in and a negative balance under growth,
\* followed by another year
C12_Witness ==
    /\ loaded = "script"
    /\ pc = "idle" /\ result # <<>>
    /\ RLt(Zero, TotalIncome(inputs))
    /\ RLt(Zero, inputs.rateOfReturn)
    /\ \E i \in Years : i + 1 \in Years /\ trace[i].depleted /\ RLt(BeginTotal(i), Zero)

\* pension + annuity + social security, as the form holds them
ExternalIncome ==
    RAdd(inputs.pensionIncome, RAdd(inputs.annuityIncome, inputs.socialSecurity))

\* C13: each non-depleted year the amount sought from the accounts is
\* max(0, nominal spend - (pensionIncome + annuityIncome + socialSecurity)); when the
\* income covers the spend nothing is withdrawn from any account and taxes are 0.
C13_NetCashNeed ==
    loaded = "script" =>
        \A i \in Years :
            Active(i) =>
                /\ trace[i].need = IF RLe(trace[i].spend, ExternalIncome)
                                       THEN Zero
                                       ELSE RSub(trace[i].spend, ExternalIncome)
                /\ data[i].income = ExternalIncome
                /\ RLe(trace[i].spend, ExternalIncome) =>
                       /\ FromTaxDeferred(i) = Zero
                       /\ FromRoth(i) = Zero
                       /\ FromTaxable(i) = Zero
                       /\ data[i].withdrawal = Zero
                       /\ data[i].taxes = Zero

\* a year that social security covers, and a later year that inflation pushes above it
C13_Witness ==
    /\ RunsScript
    /\ RLt(Zero, inputs.socialSecurity)
    /\ \E i \in Years : \E j \in Years :
           /\ i < j
           /\ Active(i) /\ RLe(trace[i].spend, ExternalIncome) /\ RLt(Zero, BeginTotal(i))
           /\ Active(j) /\ RLt(Zero, trace[j].need) /\ RLt(Zero, data[j].withdrawal)

\* C14: in every non-depleted year's record netSpending = withdrawal - taxes + total
\* external income, and monthlyNet = netSpending / 12.
C14_NetSpendingAvailable ==
    loaded = "script" =>
        \A i \in Years :
            Active(i) =>
                /\ data[i].netSpending
                       = RAdd(RSub(data[i].withdrawal, data[i].taxes), ExternalIncome)
                /\ RMul(data[i].monthlyNet, Num(12)) = data[i].netSpending

\* a taxed withdrawal in a year with income
C14_Witness ==
    /\ RunsScript
    /\ RLt(Zero, ExternalIncome)
    /\ \E i \in Years : Active(i) /\ RLt(Zero, data[i].withdrawal) /\ RLt(Zero, data[i].taxes)

GrowthFactor == RAdd(One, inputs.rateOfReturn)

\* C15: in every non-depleted year each account's ending balance is (its beginning
\* balance - the amount withdrawn from it) x (1 + rateOfReturn): growth acts on each
\* account separately and on the post-withdrawal balance only.
C15_GrowthAfterWithdrawal ==
    loaded = "script" =>
        \A i \in Years :
            Active(i) =>
                /\ data[i].taxDeferredBalance
                       = RMul(RSub(trace[i].begin[1], FromTaxDeferred(i)), GrowthFactor)
                /\ data[i].rothBalance
                       = RMul(RSub(trace[i].begin[2], FromRoth(i)), GrowthFactor)
                /\ data[i].taxableBalance
                       = RMul(RSub(trace[i].begin[3], FromTaxable(i)), GrowthFactor)
                /\ data[i].totalBalance
                       = RMul(RSub(BeginTotal(i), data[i].withdrawal), GrowthFactor)
                /\ i + 1 \in Years =>
                       trace[i + 1].begin = <<data[i].taxDeferredBalance, data[i].rothBalance,
                                              data[i].taxableBalance>>

\* growth in a year that draws on the tax-deferred account and leaves money in all three
C15_Witness ==
    /\ RunsScript
    /\ RLt(Zero, inputs.rateOfReturn)
    /\ \E i \in Years :
           /\ Active(i) /\ RLt(Zero, FromTaxDeferred(i))
           /\ RLt(Zero, data[i].taxDeferredBalance)
           /\ RLt(Zero, data[i].rothBalance)
           /\ RLt(Zero, data[i].taxableBalance)

\* C16: in calculateAnnualProjection the year's growth is applied to the post-withdrawal
\* balance only: endingBalance = (beginningBalance - withdrawal) x (1 + rateOfReturn/100).
C16_CalculatorGrowthAfterWithdrawal ==
    (loaded = "calculator" /\ RLt(Zero, FormValues(inputs).startingBalance)) =>
        \A i \in 1..Len(projectionData) :
            projectionData[i].endingBalance
                = RMul(RSub(projectionData[i].beginningBalance, projectionData[i].withdrawal),
                       RAdd(One, RDiv(FormValues(inputs).rateOfReturn, Num(100))))

\* C17: no record returned by calculateProjection has a negative endingBalance or
\* beginningBalance: stored balances are floored at 0.
C17_CalculatorBalancesFloored ==
    (loaded = "calculator" /\ result # <<>>
        /\ RLt(Zero, FormValues(result[1]).startingBalance)) =>
        \A i \in 1..Len(result[2]) :
            /\ RLe(Zero, result[2][i].endingBalance)
            /\ RLe(Zero, result[2][i].beginningBalance)

\* C18: every record of runProjection has percentWithdrawn = withdrawal / beginning total
\* balance x 100, computed only with a positive beginning total balance; a year whose
\* beginning total balance is 0 (or less) has percentWithdrawn = 0.
C18_PercentWithdrawn ==
    loaded = "script" =>
        \A i \in Years :
            /\ Active(i) =>
                   /\ RLt(Zero, BeginTotal(i))
                   /\ data[i].percentWithdrawn
                          = RMul(RDiv(data[i].withdrawal, BeginTotal(i)), Num(100))
            /\ ~RLt(Zero, BeginTotal(i)) => data[i].percentWithdrawn = Zero

C18_Witness ==
    /\ loaded = "script"
    /\ \E i \in Years : Active(i) /\ RLt(Zero, data[i].withdrawal)
                            /\ RLt(Zero, data[i].percentWithdrawn)
    /\ \E i \in Years : BeginTotal(i) = Zero /\ data[i].percentWithdrawn = Zero

\* C19: for an integer projectionYears in [1, 50] runProjection returns exactly
\* projectionYears records, one per simulated year in chronological order: the record at
\* offset k from the first has year = first record's year + k; years found depleted are
\* records of the sequence like any other.
C19_ResultShape ==
    (loaded = "script" /\ result # <<>> /\ result[1].projectionYears \in 1..50) =>
        /\ Len(result[2]) = result[1].projectionYears
        /\ \A i \in 1..Len(result[2]) : result[2][i].year = result[2][1].year + (i - 1)

\* a returned sequence with a year with funds followed by depleted years
C19_Witness ==
    /\ loaded = "script" /\ pc = "idle" /\ result # <<>>
    /\ result[1].projectionYears \in 1..50
    /\ result[2] = data
    /\ \E i \in Years : \E j \in Years : i < j /\ j < Len(data) /\ Active(i) /\ ~Active(j)

\* C20 (as stated): in a run of the longest length the form allows, a year whose
\* beginning total balance is positive but smaller than the net cash need is followed,
\* among the forty or more years after it, by a year in which the depletion check triggers.
C20_EventualDepletion ==
    (loaded = "script" /\ pc = "idle" /\ result # <<>> /\ result[2] = data
        /\ inputs.projectionYears = 50) =>
        \A i \in Years :
            (Shortfall(i) /\ Len(data) - i >= 40) =>
                \E j \in Years : j > i /\ ~Active(j)

\* C20 (amended): a year whose beginning total balance is positive but smaller than the
\* net cash need withdraws nothing, so (for rateOfReturn > -100%) the next year begins
\* with that total x (1 + rateOfReturn), still positive, and the depletion check does not
\* trigger in it, nor in any later year reached through such years only; with
\* rateOfReturn = 0, inflationRate = 0 and no one-time addition every later year is such a
\* year again, so the depletion check never triggers however long the run.
C20_ShortfallKeepsFunds ==
    (loaded = "script" /\ RLt(Num(-1), inputs.rateOfReturn)) =>
        \A i \in Years :
            Shortfall(i) =>
                /\ (i + 1) \in Years =>
                       /\ Active(i + 1)
                       /\ BeginTotal(i + 1) = RMul(BeginTotal(i), GrowthFactor)
                /\ \A j \in Years :
                       (j > i /\ \A k \in i..(j - 1) : Shortfall(k)) => Active(j)
                /\ (inputs.rateOfReturn = Zero /\ inputs.inflationRate = Zero
                        /\ inputs.addedSpend = Zero) =>
                       \A j \in Years :
                           j > i => (Shortfall(j) /\ trace[j].begin = trace[i].begin)

\* the fifty-year run that falls short in its first year and has returned
C20_Witness ==
    /\ loaded = "script" /\ pc = "idle" /\ result # <<>> /\ result[2] = data
    /\ inputs.projectionYears = 50
    /\ Len(data) = 50
    /\ Shortfall(1)
    /\ Shortfall(50)

\* C21: every record produced by runProjection, depleted or not, has totalBalance equal
\* to the sum of its taxDeferredBalance, rothBalance and taxableBalance.
C21_RecordTotalIsSum ==
    loaded = "script" =>
        \A i \in Years :
            data[i].totalBalance
                = RAdd(RAdd(data[i].taxDeferredBalance, data[i].rothBalance),
                       data[i].taxableBalance)

\* a record with money in the taxable and in another account, and a depleted record
C21_Witness ==
    /\ loaded = "script"
    /\ \E i \in Years :
           /\ Active(i)
           /\ RLt(Zero, data[i].taxableBalance)
           /\ RLt(data[i].taxableBalance, data[i].totalBalance)
    /\ \E i \in Years : ~Active(i)

\* C22: the sequence returned by calculateProjection has at most `years` records, and a
\* record whose endingBalance is <= 0, if there is one, is the last record.
C22_CalculatorStopsWhenOut ==
    (loaded = "calculator" /\ result # <<>>) =>
        /\ Len(result[2]) <= FormValues(result[1]).years
        /\ \A i \in 1..Len(result[2]) :
               RLe(result[2][i].endingBalance, Zero) => i = Len(result[2])

\* a returned sequence cut short by a record that ran out of money
C22_Witness ==
    /\ loaded = "calculator" /\ result # <<>>
    /\ Len(result[2]) >= 2
    /\ Len(result[2]) < FormValues(result[1]).years
    /\ RLe(result[2][Len(result[2])].endingBalance, Zero)

PageTypeOK ==
    /\ handler \in {"none", "validate", "projecting", "returned", "finally"}
    /\ blocked \in 0..MaxBlockedCalls

\* the running or last calculateAndUpdate has done `event`
Logged(event) == \E k \in 1..Len(log) : log[k] = event

\* calculateAndUpdate has filled the cards and the table from this.projectionData
UIUpdated == loaded = "script" /\ handler \in {"finally", "none"} /\ Logged("updateUI")

\* C23: in the table filled by updateTable a row whose totalBalance is <= 0 is marked
\* bg-danger, a row is marked bg-warning only when its totalBalance is positive and less
\* than 5 times its withdrawal, and no row has both marks.
C23_RowColours ==
    UIUpdated =>
        \A i \in 1..Len(tableRows) :
            /\ RLe(projectionData[i].totalBalance, Zero) => "bg-danger" \in tableRows[i]
            /\ "bg-warning" \in tableRows[i] =>
                   /\ RLt(Zero, projectionData[i].totalBalance)
                   /\ RLt(projectionData[i].totalBalance,
                          RMul(projectionData[i].withdrawal, Num(5)))
            /\ ~({"bg-danger", "bg-warning"} \subseteq tableRows[i])

\* the sum of a field over the records of this.projectionData with index in S
RECURSIVE Total(_, _)
Total(S, field) ==
    IF S = {} THEN Zero
    ELSE LET i == CHOOSE j \in S : TRUE
         IN  RAdd(projectionData[i][field], Total(S \ {i}, field))

\* C24: the summary cards hold reductions over the result sequence: total starting
\* balance = the sum of the three starting balances, final balance = totalBalance of the
\* last record, total taxes = the sum of taxes over all records, and average withdrawal
\* % = the sum of percentWithdrawn over all records divided by the number of records,
\* depleted zero records included.
C24_SummaryAggregates ==
    UIUpdated =>
        LET n == Len(projectionData)
        IN  /\ summary.totalStarting
                   = RAdd(inputs.startingTaxable,
                          RAdd(inputs.startingRoth, inputs.startingTaxDeferred))
            /\ summary.finalBalance = projectionData[n].totalBalance
            /\ summary.totalTaxes = Total(1..n, "taxes")
            /\ RMul(summary.avgWithdrawal, Num(n)) = Total(1..n, "percentWithdrawn")

\* cards filled from a run with taxes, a withdrawal and a depleted zero record
C24_Witness ==
    /\ UIUpdated
    /\ RLt(Zero, summary.totalTaxes)
    /\ RLt(Zero, summary.avgWithdrawal)
    /\ \E i \in 1..Len(projectionData) :
           projectionData[i].withdrawal = Zero /\ projectionData[i].percentWithdrawn = Zero
    /\ \E i \in 1..Len(projectionData) : \E j \in 1..Len(projectionData) :
           i # j /\ RLt(Zero, projectionData[i].taxes) /\ RLt(Zero, projectionData[j].taxes)

\* C25: in calculateAndUpdate runProjection is invoked only after the form validation of
\* that same call has passed; when the validation fails runProjection is not called,
\* this.projectionData keeps the value it had before the call, and neither updateUI nor
\* updateCharts runs.
C25_ValidationFirst ==
    loaded = "script" =>
        /\ (pc = "loop" \/ handler \in {"projecting", "returned"} \/ Logged("runProjection")) =>
               (Len(log) >= 2 /\ log[1] = "valid" /\ log[2] = "runProjection")
        /\ (Logged("updateUI") \/ Logged("updateCharts")) => Logged("runProjection")
        /\ Logged("invalid") =>
               /\ log = <<"invalid">>
               /\ pc = "idle"
               /\ projectionData = before

\* a call whose validation failed has returned, an earlier projection still in place
C25_Witness ==
    /\ loaded = "script" /\ handler = "none"
    /\ Logged("invalid")
    /\ before # <<>>
    /\ projectionData = before

\* C26: in every year with funds each account gives between 0 and its beginning balance,
\* the total withdrawal exceeds neither the net cash need nor the beginning total
\* balance, and the three balances just before growth add up to the beginning total
\* balance minus the total withdrawal (which, with rateOfReturn = 0, is the ending total).
C26_Conservation ==
    RunsScript =>
        \A i \in Years :
            Active(i) =>
                /\ RLe(Zero, FromTaxDeferred(i)) /\ RLe(FromTaxDeferred(i), trace[i].begin[1])
                /\ RLe(Zero, FromRoth(i)) /\ RLe(FromRoth(i), trace[i].begin[2])
                /\ RLe(Zero, FromTaxable(i)) /\ RLe(FromTaxable(i), trace[i].begin[3])
                /\ RLe(data[i].withdrawal, trace[i].need)
                /\ RLe(data[i].withdrawal, BeginTotal(i))
                /\ TotalBalance(trace[i].stages[3].td, trace[i].stages[3].roth,
                                trace[i].stages[3].taxable)
                       = RSub(BeginTotal(i), data[i].withdrawal)
                /\ inputs.rateOfReturn = Zero =>
                       data[i].totalBalance = RSub(BeginTotal(i), data[i].withdrawal)

\* without growth, a year that draws on two accounts and leaves money behind
C26_Witness ==
    /\ RunsScript
    /\ inputs.rateOfReturn = Zero
    /\ \E i \in Years :
           /\ Active(i)
           /\ RLt(Zero, FromRoth(i)) /\ RLt(Zero, FromTaxable(i))
           /\ RLt(Zero, data[i].totalBalance)

\* a call of calculateAndUpdate or calculateProjection is executing
Executing == IF loaded = "script" THEN handler # "none" ELSE pc # "idle"

\* C27: isCalculating is true exactly while a call of calculateAndUpdate (script.js) or
\* calculateProjection (retirement-calculator.js) is executing: once the call has
\* returned (normally, on failed validation, or after a caught error) the flag is false
\* and a new call can start; a call made while the flag is true returns at once, runs no
\* projection and leaves the flag set.
C27_CalculatingFlag ==
    /\ isCalculating <=> Executing
    /\ ~Executing =>
           IF loaded = "script" THEN ENABLED CalculateAndUpdate
                                ELSE ENABLED CalculateProjection

\* a call was turned away during a run that has since returned; the flag is down again
C27_Witness ==
    /\ loaded = "script"
    /\ blocked > 0
    /\ ~Executing /\ ~isCalculating
    /\ result # <<>>
    /\ Logged("updateUI")

\* the last event is a call of the debounced function: a run of func is owed
RunOwed == events # <<>> /\ events[Len(events)].kind = "call"

\* every run of func directly follows the call whose arguments it carries, at least
\* `wait` later; a timer is pending exactly while a run is owed, and it is the last call's
DebounceSafe ==
    /\ \A k \in 1..Len(events) :
           events[k].kind = "run" =>
               /\ k > 1
               /\ events[k - 1].kind = "call"
               /\ events[k - 1].args = events[k].args
               /\ events[k].at >= events[k - 1].at + wait
    /\ timeout = IF RunOwed
                 THEN {<<events[Len(events)].at + wait, events[Len(events)].args>>}
                 ELSE {}

\* C28: func runs only when `wait` has elapsed since a call with no further call in
\* between; a call made while a timer is pending cancels that run, so calls spaced less
\* than `wait` apart cause one run of func, after the last of them and with its
\* arguments, and that run does happen.
C28_Debounce == []DebounceSafe /\ (RunOwed ~> ~RunOwed)

\* three calls less than `wait` apart, then one run with the last call's arguments
C28_Witness ==
    /\ Len(events) = 4
    /\ \A k \in 1..3 : events[k].kind = "call"
    /\ events[2].at < events[1].at + wait
    /\ events[3].at < events[2].at + wait
    /\ events[2].at > events[1].at
    /\ events[1].args # events[3].args
    /\ events[4].kind = "run" /\ events[4].args = events[3].args

\* every call of navigateTo made so far has completed
AllNavigationsDone == navs # <<>> /\ \A c \in 1..Len(navs) : navs[c].pc = "done"

\* C29: on a page that has its dashboard, when navigateTo is asked for a section that
\* has no element, then once it has completed currentSection is not that section (it is
\* the previous section or 'dashboard') and names the section that is displayed.
C29_NavigationFallback ==
    (Len(navs) = 1 /\ AllNavigationsDone /\ "dashboard" \in elements
        /\ navs[1].requested \notin elements) =>
        /\ currentSection # navs[1].requested
        /\ currentSection \in {navs[1].previousSection, "dashboard"}
        /\ displayed = {currentSection}

\* C30: when a second navigateTo starts while an earlier one is awaiting its section's
\* init function inside loadSection, then once both have completed currentSection, the
\* displayed section and the active nav item are those of the section requested last.
C30_OverlappingNavigations ==
    (Len(navs) = 2 /\ AllNavigationsDone /\ navs[2].overlaps = {1}
        /\ {navs[1].requested, navs[2].requested} \subseteq elements) =>
        /\ currentSection = navs[2].requested
        /\ displayed = {navs[2].requested}
        /\ activeNav = {navs[2].requested}

====
